---- MODULE Spec2Model ----
(***************************************************************************)
(* SpecSmash: the schema-directed JSON generator of specsmash.go, as a     *)
(* state machine.  One draw of GenFromSchema(root) is run frame by frame:  *)
(* the stack holds the rapid.Custom closures in progress, ret holds the    *)
(* value the last finished closure returned, tape the choices taken from   *)
(* the random source.                                                      *)
(***************************************************************************)
EXTENDS Integers, Sequences, FiniteSets, TLC

VARIABLES root, options, stack, ret, status, tape, mode, first

vars == <<root, options, stack, ret, status, tape, mode, first>>

(***************************************************************************)
(* Bounds of the model.                                                    *)
(***************************************************************************)
\* Widths of the scaled integer formats: int64 and int32 keep their order,
\* TLC's own integers being 32 bits wide.
Bits64 == 12
Bits32 == 6
\* math.MaxFloat64 on the integer grid the model keeps floats on.
FloatMax == 30000000
\* A range no wider than EnumSpan is enumerated, a wider one is probed at
\* its ends and around zero.
EnumSpan == 12
\* Lengths a length-bounded string draw tries above its minimum.
StrSpan == 1
\* Element counts a slice draw tries above its minimum.
ArrSpan == 2
\* Byte counts tried for format byte / binary.
ByteSpan == 4
\* Distinct values uuid.NewString() and time.Now() can give.
UuidVariants == 2
ClockVariants == 2
\* Redraws SliceOfNDistinct is followed through.
MaxTries == 2
\* Values of the depth counter the model follows a draw through (an unbounded
\* descent is cut here).
DepthCap == 15
\* Counts of ad-hoc keys tried above zero, besides the maximum itself.
ExtraSpan == 2
\* The constant by which a draw's depth counter may pass max_depth.
DepthSlack == 3

Abs(x) == IF x < 0 THEN -x ELSE x
MinOf(a, b) == IF a < b THEN a ELSE b
MaxOf(a, b) == IF a > b THEN a ELSE b
Range(seq) == {seq[i] : i \in DOMAIN seq}

MaxInt64 == 2 ^ (Bits64 - 1) - 1
MinInt64 == -(2 ^ (Bits64 - 1))
MaxInt32 == 2 ^ (Bits32 - 1) - 1
MinInt32 == -(2 ^ (Bits32 - 1))

(***************************************************************************)
(* Go values and their JSON text.  A value is a record of kind g, number   *)
(* n, text identity t, elements and fields; a string is its length n and   *)
(* the identity t of its text.                                             *)
(***************************************************************************)
GoVal(g, n, t, elems, fields) ==
    [g |-> g, n |-> n, t |-> t, elems |-> elems, fields |-> fields]
GoNil == GoVal("nil", 0, 0, <<>>, {})
GoString(len, t) == GoVal("string", len, t, <<>>, {})
GoInt64(n) == GoVal("int64", n, 0, <<>>, {})
GoFloat64(n) == GoVal("float64", n, 0, <<>>, {})
GoBool(b) == GoVal("bool", IF b THEN 1 ELSE 0, 0, <<>>, {})
GoSlice(elems) == GoVal("slice", 0, 0, elems, {})
GoMap(fields) == GoVal("map", 0, 0, <<>>, fields)

JVal(k, n, t, elems, fields) ==
    [k |-> k, n |-> n, t |-> t, elems |-> elems, fields |-> fields]
JNull == JVal("null", 0, 0, <<>>, {})
JString(len, t) == JVal("string", len, t, <<>>, {})
JNumber(n) == JVal("number", n, 0, <<>>, {})
JBool(b) == JVal("boolean", IF b THEN 1 ELSE 0, 0, <<>>, {})
JArray(elems) == JVal("array", 0, 0, elems, {})
JObject(fields) == JVal("object", 0, 0, <<>>, fields)
\* What a panic leaves in place of a value.
Panicked(msg) == JVal("panic", 0, msg, <<>>, {})

\* json.Marshal: int64 and float64 both print as a JSON number, elements and
\* map values are RawMessages already and are copied.
marshal(v) ==
    CASE v.g = "nil" -> JNull
      [] v.g = "string" -> JString(v.n, v.t)
      [] v.g \in {"int64", "float64"} -> JNumber(v.n)
      [] v.g = "bool" -> JVal("boolean", v.n, 0, <<>>, {})
      [] v.g = "slice" -> JArray(v.elems)
      [] v.g = "map" -> JObject(v.fields)

Keys(j) == {p[1] : p \in j.fields}

(***************************************************************************)
(* openapi3.Schema: the fields the generator reads.  A SchemaRef is the    *)
(* index of a node of Nodes, 0 the nil reference.  MaxLength / MaxItems    *)
(* nil is -1, as the code itself turns it; MultipleOf nil and 0 are the    *)
(* same to the code and are both 0.  AdditionalProperties.Has is "nil",    *)
(* "true" or "false".  Properties is a set of <<name, ref>> pairs.         *)
(* APMerged holds the schema of an additionalProperties reference that     *)
(* mergeSchema allocated (APSchema = -1).                                  *)
(***************************************************************************)
Schema ==
    [isNil |-> FALSE, HasType |-> FALSE, Type |-> <<>>, Nullable |-> FALSE,
     Enum |-> <<>>, HasMin |-> FALSE, Min |-> 0, HasMax |-> FALSE, Max |-> 0,
     ExclusiveMin |-> FALSE, ExclusiveMax |-> FALSE, MultipleOf |-> 0,
     Format |-> "", Pattern |-> "", MinLength |-> 0, MaxLength |-> -1,
     Items |-> 0, MinItems |-> 0, MaxItems |-> -1, UniqueItems |-> FALSE,
     Properties |-> {}, Required |-> {}, APHas |-> "nil", APSchema |-> 0,
     APMerged |-> {}, AllOf |-> <<>>, AnyOf |-> <<>>, OneOf |-> <<>>]

\* The nil *openapi3.Schema.
NilSchema == [Schema EXCEPT !.isNil = TRUE]

\* &openapi3.Schema{Type: getType(t)}
getType(t) == [Schema EXCEPT !.HasType = TRUE, !.Type = <<t>>]

WithBounds(s, lo, hi) ==
    [s EXCEPT !.HasMin = TRUE, !.Min = lo, !.HasMax = TRUE, !.Max = hi]

\* The schema documents the draws are made from.
Nodes ==
    << (* 1 *) getType("boolean"),
       (* 2 *) [getType("object") EXCEPT !.Required = {"a"},
                   !.Properties = {<<"a", 1>>}, !.APHas = "false"],
       (* 3 *) [WithBounds(getType("integer"), 0, 10) EXCEPT !.MultipleOf = 3],
       (* 4 *) [WithBounds(getType("integer"), 1, 10) EXCEPT !.MultipleOf = 3],
       (* 5 *) [WithBounds(getType("integer"), -10, -1) EXCEPT !.MultipleOf = 3],
       (* 6 *) [getType("integer") EXCEPT !.Format = "int32", !.HasMin = TRUE,
                   !.Min = 0, !.ExclusiveMin = TRUE, !.Nullable = TRUE],
       (* 7 *) [WithBounds(getType("integer"), 0, 1) EXCEPT !.MultipleOf = 3,
                   !.Enum = <<GoFloat64(2), GoFloat64(5)>>],
       (* 8 *) [WithBounds(getType("number"), 0, 4) EXCEPT !.MultipleOf = 2,
                   !.Enum = <<GoFloat64(1)>>, !.Nullable = TRUE],
       (* 9 *) [WithBounds(getType("number"), -1, 1) EXCEPT
                   !.ExclusiveMax = TRUE, !.Nullable = TRUE],
       (* 10 *) [getType("string") EXCEPT !.MinLength = 1, !.MaxLength = 2,
                   !.Nullable = TRUE],
       (* 11 *) [getType("string") EXCEPT !.Enum = <<GoString(3, 1), GoNil>>],
       (* 12 *) [getType("string") EXCEPT !.Format = "uuid"],
       (* 13 *) [getType("string") EXCEPT !.Format = "date"],
       (* 14 *) [getType("string") EXCEPT !.Format = "byte", !.MinLength = 1,
                   !.MaxLength = 4],
       (* 15 *) [getType("string") EXCEPT !.Format = "email"],
       (* 16 *) [getType("string") EXCEPT !.Pattern = "[a-z]{3}"],
       (* 17 *) [getType("array") EXCEPT !.MaxItems = 1, !.Nullable = TRUE],
       (* 18 *) [getType("array") EXCEPT !.Items = 1, !.MinItems = 1,
                   !.MaxItems = 2, !.Enum = <<GoSlice(<<>>)>>],
       (* 19 *) [getType("array") EXCEPT !.Items = 20, !.MinItems = 2,
                   !.MaxItems = 2, !.UniqueItems = TRUE],
       (* 20 *) WithBounds(getType("integer"), 1, 1),
       (* 21 *) [getType("object") EXCEPT !.Required = {"a", "ghost"},
                   !.Properties = {<<"a", 1>>, <<"opt", 20>>},
                   !.Nullable = TRUE],
       (* 22 *) [getType("object") EXCEPT !.APHas = "true"],
       (* 23 *) [getType("object") EXCEPT !.APSchema = 1,
                   !.Properties = {<<"key20long", 20>>}],
       (* 24 *) [getType("object") EXCEPT !.Required = {"a", "b"},
                   !.Properties = {<<"a", 1>>, <<"b", 1>>}, !.APHas = "false"],
       (* 25 *) Schema,
       (* 26 *) [Schema EXCEPT !.Nullable = TRUE, !.Enum = <<GoFloat64(1)>>],
       (* 27 *) getType("null"),
       (* 28 *) [Schema EXCEPT !.HasType = TRUE, !.Type = <<"string", "null">>],
       (* 29 *) [Schema EXCEPT !.AllOf = <<30, 31>>],
       (* 30 *) [getType("object") EXCEPT !.Required = {"x"},
                   !.Properties = {<<"x", 20>>, <<"o", 1>>}, !.APHas = "false"],
       (* 31 *) [getType("object") EXCEPT !.Required = {"y"},
                   !.Properties = {<<"y", 10>>}],
       (* 32 *) [Schema EXCEPT !.AllOf = <<30, 1>>],
       (* 33 *) [Schema EXCEPT !.AnyOf = <<30, 2, 10>>],
       (* 34 *) [Schema EXCEPT !.OneOf = <<20, 10>>],
       (* 35 *) [getType("object") EXCEPT !.Required = {"self"},
                   !.Properties = {<<"self", 35>>}, !.APHas = "false"],
       (* 36 *) [Schema EXCEPT !.OneOf = <<1, 36>>],
       (* 37 *) [getType("array") EXCEPT !.Items = 37, !.MinItems = 1,
                   !.MaxItems = 1],
       (* 38 *) [Schema EXCEPT !.HasType = TRUE],
       (* 39 *) [getType("array") EXCEPT !.Items = 1, !.MinItems = 1,
                   !.MaxItems = 2, !.UniqueItems = TRUE],
       (* 40 *) [WithBounds(getType("integer"), 1, 2) EXCEPT !.MultipleOf = 3],
       (* 41 *) [Schema EXCEPT !.AllOf = <<31, 25, 34>>],
       (* 42 *) [getType("object") EXCEPT !.APSchema = 31],
       (* 43 *) [getType("object") EXCEPT !.APSchema = 2],
       (* 44 *) [Schema EXCEPT !.AllOf = <<42, 43>>],
       (* 45 *) [Schema EXCEPT !.AllOf = <<42, 22>>],
       (* 46 *) [getType("object") EXCEPT !.Required = {"ghost"}],
       (* 47 *) [Schema EXCEPT !.AllOf = <<31, 46>>],
       (* 48 *) [Schema EXCEPT !.AllOf = <<31, 31>>] >>

\* sub.Value of a SchemaRef; the nil reference gives the nil schema.
Deref(r) == IF r = 0 THEN NilSchema ELSE Nodes[r]

\* schema.Properties[propName]
PropRef(s, name) == (CHOOSE p \in s.Properties : p[1] = name)[2]
PropNames(s) == {p[1] : p \in s.Properties}

\* GenerationOptions
Options(d, m, a) == [depth |-> d, MaxDepth |-> m, AdditionalPropertiesMax |-> a]
\* NewGenerationOptions()
NewGenerationOptions == Options(0, 10, 10)
\* &GenerationOptions{depth: opts.depth + 1}: the other fields are Go's zero.
childOpts(opts) == Options(opts.depth + 1, 0, 0)
\* The options a caller may hand to GenFromSchema (the fields are exported).
RootOptions == {NewGenerationOptions, Options(0, 0, 0), Options(0, 2, 1)}

(***************************************************************************)
(* The random source.  A rapid range draw may give any value of the range; *)
(* the model follows the values of RangeSample.                            *)
(***************************************************************************)
RangeSample(lo, hi) ==
    IF hi - lo <= EnumSpan THEN lo .. hi
    ELSE {lo, lo + 1, hi - 1, hi} \cup ({-1, 0, 1} \cap (lo .. hi))

\* Go's integer division, which truncates toward zero.
TruncDiv(a, b) ==
    LET q == Abs(a) \div Abs(b) IN IF (a < 0) # (b < 0) THEN -q ELSE q

\* wrapNullable without its test of schema.Nullable.
wrapNullableAlways(schema, g) == g \cup {JNull}

\* wrapNullable: with schema.Nullable, rapid.OneOf(g, genNull()).
wrapNullable(schema, g) == IF schema.Nullable THEN g \cup {JNull} ELSE g

\* The []json.RawMessage built from schema.Enum.
EnumChoices(schema) == {marshal(e) : e \in Range(schema.Enum)}

(***************************************************************************)
(* Primitive generators: the set of results one draw can return, a panic   *)
(* among them as Panicked(msg).                                            *)
(***************************************************************************)
\* Lengths rapid.StringN(minLen, maxLen, -1) can give; it panics on
\* minLen > maxLen.
StringN(minLen, maxLen) ==
    IF maxLen = -1 THEN minLen .. (minLen + StrSpan)
    ELSE minLen .. MinOf(maxLen, minLen + StrSpan)

\* base64.StdEncoding.EncodeToString of n bytes.
Base64Len(n) == 4 * ((n + 2) \div 3)

\* Lengths of the strings rapid.StringMatching gives for the format regexes.
FormatLens(format) ==
    CASE format = "email" -> 6 .. (6 + StrSpan)
      [] format = "hostname" -> 1 .. (1 + StrSpan)
      [] format = "ipv4" -> 7 .. (7 + StrSpan)
      [] format = "ipv6" -> 15 .. (15 + StrSpan)
      [] format = "uri" -> 8 .. (8 + StrSpan)
      [] format = "uri-reference" -> 1 .. (1 + StrSpan)

\* Lengths of the strings rapid.StringMatching gives for a schema pattern.
PatternLens(pattern) ==
    IF pattern = "[a-z]{3}" THEN {3} ELSE 0 .. StrSpan

RegexFormats == {"email", "hostname", "ipv4", "ipv6", "uri", "uri-reference"}
\* Formats whose text comes from outside the random source.
ClockFormats == {"uuid", "date-time", "date"}

\* stringGen: the Go strings the inner generator of genString can give.
stringGen(schema) ==
    CASE schema.Format = "uuid" ->
           {GoString(36, u) : u \in 1 .. UuidVariants}
      [] schema.Format = "date-time" ->
           {GoString(20, c) : c \in 1 .. ClockVariants}
      [] schema.Format = "date" ->
           {GoString(10, c) : c \in 1 .. ClockVariants}
      [] schema.Format \in RegexFormats ->
           {GoString(n, 0) : n \in FormatLens(schema.Format)}
      [] schema.Format \in {"byte", "binary"} ->
           {GoString(Base64Len(n), 0) : n \in 0 .. ByteSpan}
      [] OTHER ->
           IF schema.Pattern # ""
           THEN {GoString(n, 0) : n \in PatternLens(schema.Pattern)}
           ELSE {GoString(n, 0) :
                    n \in StringN(schema.MinLength, schema.MaxLength)}

genString(schema) ==
    IF Len(schema.Enum) > 0 THEN EnumChoices(schema)
    ELSE IF /\ schema.Format \notin (ClockFormats \cup RegexFormats
                                        \cup {"byte", "binary"})
            /\ schema.Pattern = ""
            /\ schema.MaxLength # -1
            /\ schema.MinLength > schema.MaxLength
         THEN {Panicked(1)}
         ELSE wrapNullable(schema, {marshal(str) : str \in stringGen(schema)})

\* minLength / maxLength of genInteger after the bounds, the exclusive flags
\* and the int32 clamp.
IntegerLo(schema) ==
    LET m == IF schema.HasMin
             THEN (IF schema.ExclusiveMin THEN schema.Min + 1 ELSE schema.Min)
             ELSE MinInt64
    IN IF schema.Format = "int32" /\ m < MinInt32 THEN MinInt32 ELSE m

IntegerHi(schema) ==
    LET m == IF schema.HasMax
             THEN (IF schema.ExclusiveMax THEN schema.Max - 1 ELSE schema.Max)
             ELSE MaxInt64
    IN IF schema.Format = "int32" /\ m > MaxInt32 THEN MaxInt32 ELSE m

genInteger(schema) ==
    LET minLength == IntegerLo(schema)
        maxLength == IntegerHi(schema)
        mult == schema.MultipleOf
        highestMultiplePossible == TruncDiv(maxLength, mult)
        lowestMultiplePossible == TruncDiv(minLength, mult)
        base == IF mult # 0
                THEN {v * mult : v \in RangeSample(lowestMultiplePossible,
                                                   highestMultiplePossible)}
                ELSE RangeSample(minLength, maxLength)
    IN IF minLength > maxLength THEN {Panicked(2)}
       ELSE IF mult # 0 /\ lowestMultiplePossible > highestMultiplePossible
       THEN {Panicked(3)}
       ELSE IF Len(schema.Enum) > 0 THEN EnumChoices(schema)
       ELSE wrapNullable(schema, {marshal(GoInt64(v)) : v \in base})

\* The clamp genNumber applies under multipleOf.
NumberClampLo == 2000000
NumberClampHi == 20000000

\* Floats are kept on the integer grid: math.Nextafter moves an exclusive
\* bound to the next grid point, and int(x / mult) is the truncated quotient.
genNumber(schema) ==
    LET minimum == IF schema.HasMin
                   THEN (IF schema.ExclusiveMin THEN schema.Min + 1
                                                ELSE schema.Min)
                   ELSE -FloatMax
        maximum == IF schema.HasMax
                   THEN (IF schema.ExclusiveMax THEN schema.Max - 1
                                                ELSE schema.Max)
                   ELSE FloatMax
        mult == schema.MultipleOf
        cmin == MaxOf(minimum, -NumberClampLo)
        cmax == MinOf(maximum, NumberClampHi)
        lo == IF Abs(mult) > 1 THEN TruncDiv(cmin, mult) ELSE cmin
        hi == IF Abs(mult) > 1 THEN TruncDiv(cmax, mult) ELSE cmax
    IN IF mult # 0
       THEN IF lo > hi THEN {Panicked(2)}
            ELSE {marshal(GoFloat64(multiplier * mult)) :
                     multiplier \in RangeSample(lo, hi)}
       ELSE IF minimum > maximum THEN {Panicked(2)}
       ELSE IF Len(schema.Enum) > 0 THEN EnumChoices(schema)
       ELSE wrapNullable(schema, {marshal(GoFloat64(v)) :
                                     v \in RangeSample(minimum, maximum)})

genBoolean(schema) ==
    IF Len(schema.Enum) > 0 THEN EnumChoices(schema)
    ELSE wrapNullable(schema, {marshal(GoBool(b)) : b \in BOOLEAN})

(***************************************************************************)
(* Schema merger.  The result is [ok, s, msg]: the merged schema, or the   *)
(* panic raised.                                                           *)
(***************************************************************************)
Merged(s) == [ok |-> TRUE, s |-> s, msg |-> 0]
MergePanic(msg) == [ok |-> FALSE, s |-> Schema, msg |-> msg]

\* The schema an additionalProperties reference of `schema` stands for: a
\* SchemaRef built by mergeSchema itself (-1) is held in APMerged.
APValue(schema) ==
    IF schema.APSchema = -1 THEN schema.APMerged ELSE Deref(schema.APSchema)

RECURSIVE mergeSchemaValue(_, _)
\* mergeSchema on the sub-schema value itself (sub.Value, not nil).
mergeSchemaValue(schema, subSchema) ==
    LET baseHas == schema.APHas
        subHas == subSchema.APHas
        baseAdditionalSchema == schema.APSchema
        subAdditionalSchema == subSchema.APSchema
        dup == PropNames(schema) \cap PropNames(subSchema)
        both == [schema EXCEPT
                   !.Required = schema.Required \cup subSchema.Required,
                   !.Properties = schema.Properties \cup subSchema.Properties]
        inner == mergeSchemaValue(APValue(schema), APValue(subSchema))
    IN IF Len(schema.Type) > 0 /\ schema.Type[1] # "object"
       THEN MergePanic(4)
       ELSE IF Len(subSchema.Type) > 0 /\ subSchema.Type[1] # "object"
       THEN MergePanic(5)
       ELSE IF dup # {} THEN MergePanic(6)
       ELSE IF baseHas = "false" \/ subHas = "false"
       THEN Merged([both EXCEPT !.APHas = "false", !.APSchema = 0])
       ELSE IF baseHas = "true" /\ subHas = "true"
       THEN Merged([both EXCEPT !.APHas = "true", !.APSchema = 0])
       ELSE IF baseHas = "true" /\ subAdditionalSchema # 0
       THEN Merged([both EXCEPT !.APHas = "true",
                       !.APSchema = subAdditionalSchema,
                       !.APMerged = subSchema.APMerged])
       ELSE IF subHas = "true" /\ baseAdditionalSchema # 0
       THEN Merged([both EXCEPT !.APHas = "true"])
       ELSE IF baseAdditionalSchema # 0 /\ subAdditionalSchema # 0
       THEN IF inner.ok
            THEN Merged([both EXCEPT !.APHas = "true", !.APSchema = -1,
                            !.APMerged = inner.s])
            ELSE inner
       ELSE IF baseAdditionalSchema # 0
       THEN Merged([both EXCEPT !.APHas = "true"])
       ELSE IF subAdditionalSchema # 0
       THEN Merged([both EXCEPT !.APHas = "true",
                       !.APSchema = subAdditionalSchema,
                       !.APMerged = subSchema.APMerged])
       ELSE Merged(both)

\* mergeSchema(schema, sub): a nil sub leaves the schema as it is.
mergeSchema(schema, sub) ==
    IF sub = 0 THEN Merged(schema) ELSE mergeSchemaValue(schema, Deref(sub))

RECURSIVE mergeAll(_, _, _)
\* The loop of handleAllOf over schema.AllOf, from the zero Schema.
mergeAll(subs, i, acc) ==
    IF i > Len(subs) \/ ~acc.ok THEN acc
    ELSE mergeAll(subs, i + 1, mergeSchema(acc.s, subs[i]))

(***************************************************************************)
(* The dispatcher's choice: the generator GenFromSchema hands the draw to, *)
(* or the panic it raises.                                                 *)
(***************************************************************************)
Dispatch(schema) ==
    IF schema.isNil THEN "genAny"
    ELSE IF Len(schema.AllOf) > 0 THEN "handleAllOf"
    ELSE IF Len(schema.AnyOf) > 0 THEN "handleAnyOf"
    ELSE IF Len(schema.OneOf) > 0 THEN "handleOneOf"
    ELSE IF ~schema.HasType THEN "genAny"
    ELSE IF Len(schema.Type) > 1 THEN "panic-multiple-types"
    ELSE IF Len(schema.Type) = 0 THEN "panic-index"
    ELSE IF schema.Type[1] \in {"string", "integer", "number", "boolean",
                                "array", "object"}
         THEN (CASE schema.Type[1] = "string" -> "genString"
                 [] schema.Type[1] = "integer" -> "genInteger"
                 [] schema.Type[1] = "number" -> "genNumber"
                 [] schema.Type[1] = "boolean" -> "genBoolean"
                 [] schema.Type[1] = "array" -> "genArray"
                 [] schema.Type[1] = "object" -> "genObject")
         ELSE "genAny"

(***************************************************************************)
(* The draw in progress.  A frame is one generator closure: fn its         *)
(* generator, node the schema the dispatcher was given, s the schema the   *)
(* generator works on (a stub in genAny, the merged schema in allOf),      *)
(* opts its GenerationOptions, the rest its local variables.               *)
(***************************************************************************)
Frame(fn, node, s, opts) ==
    [fn |-> fn, node |-> node, s |-> s, opts |-> opts, begun |-> FALSE,
     props |-> {}, obj |-> {}, key |-> "", n |-> 0, arr |-> <<>>,
     tries |-> 0, sel |-> <<>>]

\* opts.GenFromSchema(schema)
Call(schema, opts) == Frame("GenFromSchema", schema, schema, opts)

NoRet ==
    [has |-> FALSE, v |-> JNull, fn |-> "", node |-> NilSchema,
     s |-> NilSchema, opts |-> Options(0, 0, 0)]

NoFirst == [tape |-> <<>>, ret |-> NoRet, status |-> "none"]

Top == stack[Len(stack)]
Running(fn) == status = "running" /\ stack # <<>> /\ Top.fn = fn
Rest == SubSeq(stack, 1, Len(stack) - 1)

\* The closure on top returns v to the closure that drew from it.
Return(v) ==
    /\ stack' = Rest
    /\ ret' = [has |-> TRUE, v |-> v, fn |-> Top.fn, node |-> Top.node,
               s |-> Top.s, opts |-> Top.opts]
    /\ status' = IF Len(stack) = 1 THEN "done" ELSE "running"

\* A panic unwinds every closure of the draw.
Panic(msg) ==
    /\ stack' = <<>>
    /\ ret' = [NoRet EXCEPT !.v = Panicked(msg), !.fn = Top.fn,
                  !.node = Top.node, !.s = Top.s, !.opts = Top.opts]
    /\ status' = "panic"

Finish(v) == IF v.k = "panic" THEN Panic(v.t) ELSE Return(v)

\* The closure on top hands the draw over to frame f and returns its value.
Become(f) ==
    /\ stack' = [stack EXCEPT ![Len(stack)] = f]
    /\ ret' = NoRet
    /\ status' = "running"

\* Become, into a closure one level deeper.
Enter(child) == child.opts.depth <= DepthCap /\ Become(child)

\* The closure on top, now in state f, draws from a new closure child.
Descend(f, child) ==
    /\ child.opts.depth <= DepthCap
    /\ stack' = Append([stack EXCEPT ![Len(stack)] = f], child)
    /\ ret' = NoRet
    /\ status' = "running"

\* One draw from the random source at the draw site `label`, giving c.  A
\* replay is given the choices of the recorded draw, in their order.
Draw(label, c) ==
    /\ (mode = "replay" /\ Len(tape) < Len(first.tape))
          => first.tape[Len(tape) + 1][2] = ToString(c)
    /\ tape' = Append(tape, <<label, ToString(c)>>)

NoDraw == tape' = tape

Choices(t) == [i \in DOMAIN t |-> t[i][2]]

Init ==
    /\ root \in DOMAIN Nodes
    /\ options \in RootOptions
    /\ stack = <<Call(Nodes[root], options)>>
    /\ ret = NoRet
    /\ status = "running"
    /\ tape = <<>>
    /\ mode = "draw"
    /\ first = NoFirst

\* GenFromSchema: the dispatcher.
RunGenFromSchema ==
    /\ Running("GenFromSchema")
    /\ LET d == Dispatch(Top.s)
       IN CASE d = "panic-multiple-types" -> Panic(7)
            [] d = "panic-index" -> Panic(8)
            [] OTHER -> Become([Top EXCEPT !.fn = d])
    /\ NoDraw
    /\ UNCHANGED <<root, options, mode, first>>

\* What the random source is asked for when a primitive returns v: the text
\* of uuid.NewString() and time.Now() is no choice of the random source.
Entropy(schema, v) ==
    IF Len(schema.Enum) = 0 /\ schema.Format \in ClockFormats
       /\ v.k = "string"
    THEN [v EXCEPT !.t = 0] ELSE v

RunGenString ==
    /\ Running("genString")
    /\ \E v \in genString(Top.s) :
          /\ Finish(v)
          /\ Draw("String", Entropy(Top.s, v))
    /\ UNCHANGED <<root, options, mode, first>>

RunGenInteger ==
    /\ Running("genInteger")
    /\ \E v \in genInteger(Top.s) : Finish(v) /\ Draw("Integer", v)
    /\ UNCHANGED <<root, options, mode, first>>

RunGenNumber ==
    /\ Running("genNumber")
    /\ \E v \in genNumber(Top.s) : Finish(v) /\ Draw("Number", v)
    /\ UNCHANGED <<root, options, mode, first>>

RunGenBoolean ==
    /\ Running("genBoolean")
    /\ \E v \in genBoolean(Top.s) : Finish(v) /\ Draw("Boolean", v)
    /\ UNCHANGED <<root, options, mode, first>>

(***************************************************************************)
(* Array generator.                                                        *)
(***************************************************************************)
\* Element counts rapid.SliceOfN(itemGen, minLength, maxLength) can give.
SliceLens(schema) ==
    IF schema.MaxItems = -1
    THEN schema.MinItems .. (schema.MinItems + ArrSpan)
    ELSE schema.MinItems .. MinOf(schema.MaxItems, schema.MinItems + ArrSpan)

\* childOpts.GenFromSchema(schema.Items.Value), or GenFromSchema(nil).
itemGen(frame) == Call(Deref(frame.s.Items), childOpts(frame.opts))

\* SliceOfN, which keeps every element it draws.
keepsEveryElement(schema, arr, v) == FALSE

\* SliceOfNDistinct over the JSON text of the elements: an element whose text
\* is already in the slice is rejected; SliceOfN rejects nothing.
isDuplicate(schema, arr, v) == schema.UniqueItems /\ v \in Range(arr)

RunGenArray ==
    /\ Running("genArray")
    /\ \/ /\ ~Top.begun
          /\ Top.s.MaxItems # -1 /\ Top.s.MinItems > Top.s.MaxItems
          /\ Panic(9)
          /\ NoDraw
       \/ /\ ~Top.begun
          /\ ~(Top.s.MaxItems # -1 /\ Top.s.MinItems > Top.s.MaxItems)
          /\ Top.s.Nullable
          /\ Return(JNull)
          /\ Draw("Array-Value", JNull)
       \/ /\ ~Top.begun
          /\ \E n \in SliceLens(Top.s) :
                /\ Draw("Array-Value", n)
                /\ IF n = 0 THEN Return(marshal(GoSlice(<<>>)))
                   ELSE Descend([Top EXCEPT !.begun = TRUE, !.n = n],
                                itemGen(Top))
       \/ /\ Top.begun
          /\ ret.has
          /\ NoDraw
          /\ LET dupl == isDuplicate(Top.s, Top.arr, ret.v)
                 arr2 == IF dupl THEN Top.arr ELSE Append(Top.arr, ret.v)
                 tries2 == IF dupl THEN Top.tries + 1 ELSE Top.tries
             IN IF dupl /\ tries2 > MaxTries THEN Panic(10)
                ELSE IF Len(arr2) = Top.n THEN Return(marshal(GoSlice(arr2)))
                ELSE Descend([Top EXCEPT !.arr = arr2, !.tries = tries2],
                             itemGen(Top))
    /\ UNCHANGED <<root, options, mode, first>>

(***************************************************************************)
(* Object generator.                                                       *)
(***************************************************************************)
\* contains(schema.Required, propName) over the declared properties.
requiredPropsStrings(schema) ==
    {p \in PropNames(schema) : p \in schema.Required}
optionalPropStrings(schema) ==
    {p \in PropNames(schema) : p \notin schema.Required}

\* Keys rapid.StringN(20, 30, -1) can give: strings of 20 to 30 characters,
\* one of them the name of a declared property.
ExtraKeyPool == {"key20", "key20long"}

\* Values of numExtras followed.
ExtraCounts(max) == {k \in 0 .. max : k <= ExtraSpan \/ k = max}

\* isAllowedAdditionalProperties left at its initial true.
isAllowedAlways(schema) == TRUE

isAllowedAdditionalProperties(schema) == schema.APHas # "false"

\* The draws of one genObject call: numExtras, the ad-hoc keys and the
\* sampled optional keys.
ObjectPlans(schema, opts) ==
    {[n |-> n, extra |-> K, optional |-> O] :
        n \in (IF isAllowedAdditionalProperties(schema)
               THEN ExtraCounts(opts.AdditionalPropertiesMax) ELSE {0}),
        K \in SUBSET ExtraKeyPool,
        O \in SUBSET optionalPropStrings(schema)}

PlanOk(plan) ==
    /\ plan.n = 0 => plan.extra = {}
    /\ plan.n > 0 => plan.extra # {} /\ Cardinality(plan.extra) <= plan.n

\* allProps: ad-hoc keys first, overridden by the optional keys drawn, then
\* by the required declared keys.
allProps(schema, plan) ==
    LET declared == plan.optional \cup requiredPropsStrings(schema)
    IN {<<k, schema.APSchema>> : k \in plan.extra \ declared}
         \cup {<<p, PropRef(schema, p)>> : p \in declared}

\* prop.Value, or nil for a nil prop.
propSchema(schema, ref) == IF ref = -1 THEN schema.APMerged ELSE Deref(ref)

RunGenObject ==
    /\ Running("genObject")
    /\ \/ /\ ~Top.begun
          /\ \E plan \in ObjectPlans(Top.s, Top.opts) :
                /\ PlanOk(plan)
                /\ Draw("Object", plan)
                /\ IF allProps(Top.s, plan) = {} THEN Return(JObject({}))
                   ELSE Become([Top EXCEPT !.begun = TRUE,
                                   !.props = allProps(Top.s, plan)])
       \/ /\ Top.begun
          /\ ret.has \/ Top.key = ""
          /\ LET obj2 == IF ret.has THEN Top.obj \cup {<<Top.key, ret.v>>}
                         ELSE Top.obj
                 left == {p \in Top.props : p[1] \notin {q[1] : q \in obj2}}
             IN IF left = {} THEN Return(marshal(GoMap(obj2))) /\ NoDraw
                ELSE \E p \in left :
                        /\ Descend([Top EXCEPT !.obj = obj2, !.key = p[1]],
                              Call(propSchema(Top.s, p[2]),
                                   childOpts(Top.opts)))
                        /\ Draw("prop-" \o p[1], "sub-draw")
    /\ UNCHANGED <<root, options, mode, first>>

(***************************************************************************)
(* Any generator.                                                          *)
(***************************************************************************)
AnyTypes == <<"string", "integer", "number", "boolean", "array", "object">>

\* opts.genX(&openapi3.Schema{Type: getType(t)})
Stub(frame, t) ==
    Frame(Dispatch(getType(t)), frame.node, getType(t), frame.opts)

RunGenAny ==
    /\ Running("genAny")
    /\ IF Top.opts.depth >= Top.opts.MaxDepth
       THEN Become(Stub(Top, "string")) /\ NoDraw
       ELSE \E i \in 1 .. (Len(AnyTypes) + 1) :
               /\ Draw("Any-OneOf", i)
               /\ IF i > Len(AnyTypes) THEN Return(JNull)
                  ELSE Become(Stub(Top, AnyTypes[i]))
    /\ UNCHANGED <<root, options, mode, first>>

(***************************************************************************)
(* Compositions.                                                           *)
(***************************************************************************)
RunHandleAllOf ==
    /\ Running("handleAllOf")
    /\ LET m == mergeAll(Top.s.AllOf, 1, Merged(Schema))
       IN IF m.ok THEN Become(Frame("genObject", Top.node, m.s, Top.opts))
          ELSE Panic(m.msg)
    /\ NoDraw
    /\ UNCHANGED <<root, options, mode, first>>

\* selectedIndices: numToSatisfy distinct indices, in the order drawn.
Selections(numSchemas) ==
    {sq \in UNION {[1 .. k -> 1 .. numSchemas] : k \in 1 .. numSchemas} :
        \A i, j \in DOMAIN sq : i # j => sq[i] # sq[j]}

\* json.Unmarshal(val, &submap) succeeds: on an object, and on null, which
\* leaves the map nil.
UnmarshalsToMap(val) == val.k \in {"object", "null"}

\* for k, v := range submap { merged[k] = v }
mergeSubmap(merged, val) ==
    {p \in merged : p[1] \notin Keys(val)} \cup val.fields

anyOfGen(frame, i) ==
    Call(Deref(frame.s.AnyOf[frame.sel[i]]), childOpts(frame.opts))

RunHandleAnyOf ==
    /\ Running("handleAnyOf")
    /\ \/ /\ ~Top.begun
          /\ \E sel \in Selections(Len(Top.s.AnyOf)) :
                /\ Draw("anyOf-indices", sel)
                /\ LET f == [Top EXCEPT !.begun = TRUE, !.sel = sel, !.n = 1]
                   IN IF Len(sel) = 1 THEN Enter(anyOfGen(f, 1))
                      ELSE Descend(f, anyOfGen(f, 1))
       \/ /\ Top.begun
          /\ ret.has
          /\ NoDraw
          /\ IF ~UnmarshalsToMap(ret.v)
             THEN /\ stack' = Rest
                  /\ ret' = ret
                  /\ status' = IF Len(stack) = 1 THEN "done" ELSE "running"
             ELSE LET merged == mergeSubmap(Top.obj, ret.v)
                  IN IF Top.n = Len(Top.sel)
                     THEN Return(marshal(GoMap(merged)))
                     ELSE Descend([Top EXCEPT !.obj = merged, !.n = @ + 1],
                                  anyOfGen(Top, Top.n + 1))
    /\ UNCHANGED <<root, options, mode, first>>

RunHandleOneOf ==
    /\ Running("handleOneOf")
    /\ \E i \in DOMAIN Top.s.OneOf :
          /\ Draw("OneOf-Choice", i)
          /\ Enter(Call(Deref(Top.s.OneOf[i]), childOpts(Top.opts)))
    /\ UNCHANGED <<root, options, mode, first>>

(***************************************************************************)
(* The property engine replays a finished draw: the same generator is run  *)
(* again and the random source repeats the choices it gave.                *)
(***************************************************************************)
Replay ==
    /\ status \in {"done", "panic"}
    /\ mode = "draw"
    /\ first' = [tape |-> tape, ret |-> ret, status |-> status]
    /\ mode' = "replay"
    /\ stack' = <<Call(Nodes[root], options)>>
    /\ ret' = NoRet
    /\ status' = "running"
    /\ tape' = <<>>
    /\ UNCHANGED <<root, options>>

Next ==
    \/ RunGenFromSchema
    \/ RunGenString
    \/ RunGenInteger
    \/ RunGenNumber
    \/ RunGenBoolean
    \/ RunGenArray
    \/ RunGenObject
    \/ RunGenAny
    \/ RunHandleAllOf
    \/ RunHandleAnyOf
    \/ RunHandleOneOf
    \/ Replay

Spec == Init /\ [][Next]_vars

(***************************************************************************)
(* Properties.  ret is the value the last finished generator closure       *)
(* returned: ret.fn its generator, ret.node the schema node the dispatcher *)
(* was given, ret.s the schema the generator worked on.                    *)
(***************************************************************************)
Returned(fn) == ret.has /\ ret.fn = fn

\* C1: every value drawn from an object schema (typed object, or the merged
\* schema of an allOf) is a JSON object that has every name of S.required
\* as a key, whether or not the name is declared in S.properties.
C1_RequiredKeysPresent ==
    Returned("genObject") =>
        /\ ret.v.k = "object"
        /\ ret.s.Required \subseteq Keys(ret.v)

\* C2: a value drawn from an integer schema without enum lies within
\* minimum and maximum (strictly on an exclusive side) and within the int32
\* range under format int32, with multiple_of set or not.
C2_IntegerWithinBounds ==
    (Returned("genInteger") /\ Len(ret.s.Enum) = 0 /\ ret.v.k = "number") =>
        /\ ret.s.HasMin =>
              IF ret.s.ExclusiveMin THEN ret.v.n > ret.s.Min
              ELSE ret.v.n >= ret.s.Min
        /\ ret.s.HasMax =>
              IF ret.s.ExclusiveMax THEN ret.v.n < ret.s.Max
              ELSE ret.v.n <= ret.s.Max
        /\ ret.s.Format = "int32" =>
              ret.v.n >= MinInt32 /\ ret.v.n <= MaxInt32

\* C3: a value drawn at a schema node with a non-empty enum is one of the
\* enum values, whatever the node's type tag and other constraints.
C3_EnumClosure ==
    (ret.has /\ Len(ret.node.Enum) > 0) =>
        \E e \in Range(ret.node.Enum) : ret.v = marshal(e)

\* A step of the closure on top that returns the literal null.
ReturnsNull ==
    /\ Next
    /\ Len(stack') < Len(stack)
    /\ ret'.has /\ ret'.v = JNull

\* A step of the closure on top that goes on to a value other than null.
GoesOnNonNull ==
    /\ Next
    /\ status' # "panic"
    /\ ~(ret'.has /\ ret'.v = JNull)

\* C4: at a non-composition node with nullable=true the generator is a
\* choice between the original generator and null: the closure about to
\* draw can return null and can go on to a non-null value.
C4_NullableOffersNull ==
    (/\ status = "running" /\ mode = "draw" /\ stack # <<>>
     /\ Top.fn \in {"genString", "genInteger", "genNumber", "genBoolean",
                    "genArray", "genObject", "genAny"}
     /\ ~Top.begun
     /\ Top.s.Nullable /\ Len(Top.s.Enum) = 0) =>
        /\ ENABLED ReturnsNull
        /\ ENABLED GoesOnNonNull

\* C5: the literal null is returned at a schema node's position only if the
\* node has nullable=true or has null among its types or its enum values.
C5_NullOnlyWhereDeclared ==
    (ret.has /\ ret.v = JNull) =>
        \/ ret.node.Nullable
        \/ "null" \in Range(ret.node.Type)
        \/ \E e \in Range(ret.node.Enum) : marshal(e) = JNull

\* C5, amended: the literal null is returned at a node's position only if
\* the node has nullable=true, has null among its enum values, or is handed
\* to the any generator below max_depth.
C5_NullOnlyWhereDeclaredOrAny ==
    (ret.has /\ ret.v = JNull) =>
        \/ ret.node.Nullable
        \/ \E e \in Range(ret.node.Enum) : marshal(e) = JNull
        \/ ret.fn = "genAny" /\ ret.opts.depth < ret.opts.MaxDepth

\* The any generator returned null for a node that is not nullable and has
\* no enum.
C5_Witness ==
    /\ ret.has /\ ret.v = JNull
    /\ ret.fn = "genAny"
    /\ ~ret.node.Nullable /\ Len(ret.node.Enum) = 0

\* C6: the string drawn from a string schema without enum has a length
\* within [min_length, max_length], also under a format or a pattern.
C6_StringLengthWithinBounds ==
    (Returned("genString") /\ Len(ret.s.Enum) = 0 /\ ret.v.k = "string") =>
        /\ ret.v.n >= ret.s.MinLength
        /\ ret.s.MaxLength # -1 => ret.v.n <= ret.s.MaxLength

\* C7: with additional properties forbidden, the keys of a drawn object are
\* declared property names and include every declared required name,
\* whatever additional_properties_max is; a single required boolean
\* property a gives {"a":true} or {"a":false} only.
C7_ForbiddenAdditionalKeys ==
    (Returned("genObject") /\ ret.s.APHas = "false") =>
        /\ ret.v.k = "object"
        /\ Keys(ret.v) \subseteq PropNames(ret.s)
        /\ (ret.s.Required \cap PropNames(ret.s)) \subseteq Keys(ret.v)
        /\ ret.s = Nodes[2] =>
              ret.v \in {JObject({<<"a", JBool(TRUE)>>}),
                         JObject({<<"a", JBool(FALSE)>>})}

\* The object {"a":true} drawn with additional_properties_max = 10 from the
\* schema that forbids additional properties.
C7_Witness ==
    /\ Returned("genObject") /\ ret.s = Nodes[2]
    /\ options.AdditionalPropertiesMax = 10
    /\ ret.v = JObject({<<"a", JBool(TRUE)>>})

\* C8: a string schema with a pattern or a regex-shaped format, drawn with
\* options that hold no pattern_func (GenerationOptions has no such field),
\* fails with a panic and returns no string.
C8_PatternNeedsPatternFunc ==
    ~(/\ Returned("genString") /\ Len(ret.s.Enum) = 0
      /\ ret.s.Pattern # "" \/ ret.s.Format \in RegexFormats)

\* C9: the depth counter of a draw stays within max_depth plus a constant,
\* for every schema graph, a cyclic one included.
C9_DepthBounded ==
    \A i \in DOMAIN stack :
        stack[i].opts.depth <= options.MaxDepth + DepthSlack

\* C10: a replay that is given the same random choices as the recorded draw
\* returns the same value and issues the same sequence of sub-draws.
C10_ReplayEquivalent ==
    (/\ mode = "replay" /\ status = "done" /\ first.status = "done"
     /\ Choices(tape) = Choices(first.tape)) =>
        /\ ret.v = first.ret.v
        /\ tape = first.tape

\* C11: an array returned by the array generator has between min_items and
\* max_items elements; under unique_items no two of its elements have the
\* same JSON text; and the schema of two distinct items whose item schema
\* is fixed to 1 returns no array at all.
C11_ArrayCardinalityAndUniqueness ==
    (Returned("genArray") /\ ret.v.k = "array") =>
        /\ Len(ret.v.elems) >= ret.s.MinItems
        /\ ret.s.MaxItems # -1 => Len(ret.v.elems) <= ret.s.MaxItems
        /\ ret.s.UniqueItems =>
              \A i, j \in DOMAIN ret.v.elems :
                  i # j => ret.v.elems[i] # ret.v.elems[j]
        /\ ret.s # Nodes[19]

\* A unique array of two distinct booleans was returned.
C11_Witness ==
    /\ Returned("genArray") /\ ret.s = Nodes[39]
    /\ ret.s.UniqueItems /\ Len(ret.v.elems) = 2

\* The tags of a types list other than null.
NonNullTags(schema) == {t \in Range(schema.Type) : t # "null"}

\* The generator the specification names for a type tag.
GeneratorOfTag(t) ==
    CASE t = "string" -> "genString"
      [] t = "integer" -> "genInteger"
      [] t = "number" -> "genNumber"
      [] t = "boolean" -> "genBoolean"
      [] t = "array" -> "genArray"
      [] t = "object" -> "genObject"
      [] OTHER -> "genAny"

\* A typed node without compositors.
TypedPlainNode(schema) ==
    /\ ~schema.isNil /\ schema.HasType
    /\ Len(schema.AllOf) + Len(schema.AnyOf) + Len(schema.OneOf) = 0

\* C12: at a node without compositors the dispatcher fails only when types
\* holds more than one non-null tag; with exactly one non-null tag, with or
\* without null beside it, the generator of that tag runs; with a types
\* list that is present but empty or holds only null, the any generator
\* runs.
C12_MultipleTypesOnlyForTwoNonNullTags ==
    /\ (status = "panic" /\ ret.fn = "GenFromSchema") =>
          Cardinality(NonNullTags(ret.node)) > 1
    /\ (/\ status = "running" /\ stack # <<>>
        /\ Top.fn # "GenFromSchema" /\ Top.s = Top.node
        /\ TypedPlainNode(Top.node)) =>
          /\ Cardinality(NonNullTags(Top.node)) = 1 =>
                \E t \in NonNullTags(Top.node) : Top.fn = GeneratorOfTag(t)
          /\ Cardinality(NonNullTags(Top.node)) = 0 => Top.fn = "genAny"

\* C13: an integer schema with multiple_of = m > 0 returns a value only if
\* some multiple of m lies in [lo, hi]; otherwise the draw fails.
C13_MultipleOfNeedsAMultipleInRange ==
    (/\ Returned("genInteger") /\ ret.s.MultipleOf > 0
     /\ Len(ret.s.Enum) = 0 /\ ret.v.k = "number") =>
        \E k \in TruncDiv(IntegerLo(ret.s), ret.s.MultipleOf) - 1 ..
                 TruncDiv(IntegerHi(ret.s), ret.s.MultipleOf) + 1 :
            /\ k * ret.s.MultipleOf >= IntegerLo(ret.s)
            /\ k * ret.s.MultipleOf <= IntegerHi(ret.s)

\* The sub-schemas of the composition node the frame on top was given.
AllOfSubs == {Deref(Top.node.AllOf[i]) : i \in DOMAIN Top.node.AllOf}

\* The object generator is at work on the merged schema of an allOf node.
MergedAllOf ==
    /\ status = "running" /\ stack # <<>>
    /\ Top.fn = "genObject" /\ Len(Top.node.AllOf) > 0

TypedObject(schema) ==
    ~schema.isNil /\ schema.HasType /\ schema.Type = <<"object">>

\* C14: an allOf whose sub-schemas are not all typed object fails: a
\* sub-schema of another type, of no type at all, or made of a compositor
\* only is never skipped or merged, so the object generator gets a merged
\* schema only when every sub-schema is typed object.
C14_AllOfRejectsNonObjects ==
    MergedAllOf => \A sub \in AllOfSubs : TypedObject(sub)

\* The sub-schemas that carry an additionalProperties schema.
Carriers == {sub \in AllOfSubs : sub.APSchema # 0}

\* C15: the additional_properties of the merged schema is the lattice of
\* the sub-schemas' values, in any order: forbidden if one of them forbids;
\* else, if some carry a schema, allowed with the merge of all the schemas
\* carried (the schema itself if it is the only one); else allowed-any.
C15_AdditionalPropertiesLattice ==
    MergedAllOf =>
        IF \E sub \in AllOfSubs : sub.APHas = "false"
        THEN Top.s.APHas = "false"
        ELSE IF Carriers # {}
        THEN /\ Top.s.APHas # "false"
             /\ Top.s.APSchema # 0
             /\ APValue(Top.s).Properties =
                   UNION {APValue(sub).Properties : sub \in Carriers}
             /\ APValue(Top.s).Required =
                   UNION {APValue(sub).Required : sub \in Carriers}
             /\ Cardinality(Carriers) = 1 =>
                   \A sub \in Carriers : APValue(Top.s) = APValue(sub)
        ELSE Top.s.APHas # "false" /\ Top.s.APSchema = 0

\* Two sub-schemas declare a property of the same name.
DuplicateProperty(node) ==
    \E i, j \in DOMAIN node.AllOf :
        /\ i # j
        /\ PropNames(Deref(node.AllOf[i])) \cap PropNames(Deref(node.AllOf[j]))
              # {}

AllTypedObject(node) ==
    /\ Len(node.AllOf) > 0
    /\ \A i \in DOMAIN node.AllOf : TypedObject(Deref(node.AllOf[i]))

\* The JSON value v is one a schema of the given type can be given.
ValuedFrom(v, schema) ==
    \/ v.k = "null" /\ schema.Nullable
    \/ \E t \in Range(schema.Type) :
          v.k = (IF t \in {"integer", "number"} THEN "number" ELSE t)

\* C16: for an allOf of sub-schemas all typed object, the merged required
\* is the union of theirs and the merged properties the disjoint union of
\* theirs; a property name declared twice fails the draw; otherwise every
\* object drawn has every required key of every sub-schema, each declared
\* key valued from its declared schema.
C16_AllOfMergesRequiredAndProperties ==
    /\ (MergedAllOf /\ AllTypedObject(Top.node)) =>
          /\ ~DuplicateProperty(Top.node)
          /\ Top.s.Required = UNION {sub.Required : sub \in AllOfSubs}
          /\ Top.s.Properties = UNION {sub.Properties : sub \in AllOfSubs}
    /\ (/\ status = "panic" /\ ret.fn = "handleAllOf"
        /\ AllTypedObject(ret.node)) => DuplicateProperty(ret.node)
    /\ (Returned("genObject") /\ AllTypedObject(ret.node)) =>
          /\ ret.v.k = "object"
          /\ \A i \in DOMAIN ret.node.AllOf :
                Deref(ret.node.AllOf[i]).Required \subseteq Keys(ret.v)
          /\ \A f \in ret.v.fields :
                f[1] \in PropNames(ret.s) =>
                    ValuedFrom(f[2], Deref(PropRef(ret.s, f[1])))

\* The anyOf closure has the value of the sub-schema it drew from last.
AnyOfHasValue == Running("handleAnyOf") /\ Top.begun /\ ret.has

\* The shallow merge of the object val over the keys merged so far: the
\* later value wins.
LaterWins(merged, val) ==
    {p \in merged : p[1] \notin Keys(val)} \cup val.fields

\* A step of the anyOf closure as the specification describes it.
AnyOfStepAsSpecified ==
    /\ (Running("handleAnyOf") /\ ~Top.begun) =>
          \/ /\ Len(stack') = Len(stack)
             /\ \E i \in DOMAIN Top.s.AnyOf :
                   stack'[Len(stack')] =
                       Call(Deref(Top.s.AnyOf[i]), childOpts(Top.opts))
          \/ /\ Len(stack') = Len(stack) + 1
             /\ Len(stack'[Len(stack)].sel) >= 2
             /\ stack'[Len(stack')].node =
                   Deref(Top.s.AnyOf[stack'[Len(stack)].sel[1]])
    /\ AnyOfHasValue =>
          IF ret.v.k # "object"
          THEN stack' = Rest /\ ret'.has /\ ret'.v = ret.v
          ELSE IF Top.n = Len(Top.sel)
          THEN /\ stack' = Rest /\ ret'.has
               /\ ret'.v = JObject(LaterWins(Top.obj, ret.v))
          ELSE /\ Len(stack') = Len(stack) + 1
               /\ stack'[Len(stack)].obj = LaterWins(Top.obj, ret.v)
               /\ stack'[Len(stack')].node =
                     Deref(Top.s.AnyOf[Top.sel[Top.n + 1]])

\* C17: an anyOf that selected two or more sub-schemas generates their
\* values in the order of the selection; a value that is not a JSON object
\* (a string, number, boolean, array or null) is returned at once and
\* nothing is merged; when every value is an object the result is their
\* shallow merge, the last selected winning; a selection of one gives the
\* value of that sub-schema.
C17_AnyOfMergeOrPassThrough == [][AnyOfStepAsSpecified]_vars

\* A step of the any generator that hands the draw to the stub of type t.
AnyBecomes(t) ==
    /\ RunGenAny
    /\ stack' # <<>>
    /\ stack'[Len(stack')].s = getType(t)

\* A step of the any generator that returns null.
AnyReturnsNull == RunGenAny /\ ret'.has /\ ret'.v = JNull

\* C18: the any generator at depth d, under root options with max_depth M,
\* gives only a plain string when d is past M and can give each of string,
\* integer, number, boolean, array, object and null when d < M; and every
\* nested level works with the max_depth and additional_properties_max of
\* the root options.
C18_AnyDepthAndInheritedOptions ==
    /\ \A i \in DOMAIN stack :
          /\ stack[i].opts.MaxDepth = options.MaxDepth
          /\ stack[i].opts.AdditionalPropertiesMax =
                options.AdditionalPropertiesMax
    /\ (Running("genAny") /\ mode = "draw") =>
          /\ Top.opts.depth > options.MaxDepth =>
                /\ ~ENABLED AnyReturnsNull
                /\ \A t \in Range(AnyTypes) \ {"string"} :
                      ~ENABLED AnyBecomes(t)
          /\ Top.opts.depth < options.MaxDepth =>
                /\ ENABLED AnyReturnsNull
                /\ \A t \in Range(AnyTypes) : ENABLED AnyBecomes(t)

====
